---- MODULE Spec2Model ----
(***************************************************************************)
(* Model of page_summarizer's summarization layer and history log:         *)
(*   openai_module.py  rate limiter, response cache, primary client        *)
(*   ollama_module.py  secondary client                                    *)
(*   agent.py          summarize_url's summarization step (lines 182-194)  *)
(*   history.py        HistoryManager                                      *)
(* Strings are sequences of one-character strings; time is an integer      *)
(* clock `now` that only moves forward.                                    *)
(***************************************************************************)
EXTENDS Integers, Sequences, FiniteSets, TLC

(* ------------------------------ bounds --------------------------------- *)
MaxTime == 4
MaxStores == 3

(* ------------------------- program constants --------------------------- *)
(* Each is read from the environment at import (os.getenv with a default, *)
(* RATE_LIMIT_WINDOW apart); the model runs the program configured with   *)
(* small values. The claims are settled for CACHE_MAX_SIZE >= 1 and       *)
(* CACHE_TTL >= 1, for MAX_REQUESTS_PER_MINUTE >= 1 except where the       *)
(* variable `limit` is given other values (RateConfSpec), and for          *)
(* MAX_RETRIES >= 1 except where the variable `max_retries` is given       *)
(* other values (RetriesConfSpec).                                         *)
MAX_RETRIES == 3
BASE_DELAY == 1
OLLAMA_BASE_DELAY == 1
MAX_REQUESTS_PER_MINUTE == 2
MAX_HISTORY_SIZE == 3
RATE_LIMIT_WINDOW == 3
CACHE_MAX_SIZE == 2
CACHE_TTL == 2

(* The web requests being served at once, each in a thread of its own     *)
(* (app.py:39); a request makes one call of summarize_url.                 *)
Callers == {1, 2}
Texts == {"a", "b"}
(* The texts handed to the cache when its functions are called alone. *)
UnitTexts == {"a", "b", "c"}
NoText == "-"

(* Raw bodies a backend may answer with, before .strip().                  *)
RawOutputs == {<<"s">>, <<" ", "t", " ">>, <<" ">>}
OllamaOutputs == {<<"o", " ">>}

(* The summaries handed to _save_to_cache when it is called alone. *)
Summaries == {<<"s">>, <<>>}

(* Python's None where a str is expected.                                  *)
None == <<"None">>

(* Exceptions, by the message that identifies them.                        *)
NoExc == "NoExc"
ValueErr == "ValueError"
RateLimited == "RateLimited"
ApiErr == "ApiError"
Unexpected == "Unexpected"
Unavailable == "OllamaUnavailable"
RequestFailed == "OllamaRequestFailed"
OllamaUnexpected == "OllamaUnexpected"

VARIABLES
  now,              \* time.time()
  request_times,    \* openai_module.request_times
  rate_limit_lock,  \* holder of openai_module.rate_limit_lock, 0 = free
  cache,            \* openai_module.cache, entries in dict (insertion) order
  cache_lock,       \* holder of openai_module.cache_lock, 0 = free
  pc,               \* where each caller is
  op,               \* the function each caller entered the module by
  text,             \* clean_text of the caller's current call
  cached_result,    \* what _get_from_cache returned (openai_module.py:111)
  attempt,          \* loop variable of the retry loop the caller is in
  client,           \* TRUE once _get_openai_client() returned
  wake,             \* the time a sleeping caller's time.sleep() ends
  response,         \* raw body of the last successful backend reply
  result,           \* the stripped result
  e,                \* exception the primary raised (agent.py:185)
  ollama_error,     \* exception the secondary raised (agent.py:190)
  outcome,          \* what the summarization step returned or raised
  all_throttled,    \* history: every primary attempt so far raised throttling
  p_attempts,       \* history: network attempts the primary made in this call
  o_attempts,       \* history: generate attempts the secondary made in this call
  nstores,          \* the stores callers of _save_to_cache alone have begun
  u_last,           \* CacheSpec: the last cache call, its text and its result
  u_stored,         \* CacheSpec: history, the stores made and their times
  u_dropped,        \* CacheSpec: history, a lookup removed an expired entry
  limit,            \* the value MAX_REQUESTS_PER_MINUTE got at import
  max_retries,      \* the value MAX_RETRIES got at import
  acquired,         \* history: _check_rate_limit returned since the last attempt
  delays,           \* history: the backoff delays the primary slept in this call
  last_error,       \* the exception the caller's handler holds (e, in the handlers)
  probe,            \* history: how the secondary's liveness probe went
  history_file,     \* request_history.json, as _load_history reads it
  h_last,           \* HistorySpec: the last HistoryManager call and its return
  h_truncated,      \* HistorySpec: history, add_request has cut the list
  h_pc,             \* HistoryConcSpec: where each thread is in add_request
  h_loaded,         \* add_request's local `history`, as loaded at line 54
  h_args            \* add_request's arguments and the time of its record

sharedVars == <<now, request_times, rate_limit_lock, cache, cache_lock>>
callVars == <<pc, op, text, cached_result, attempt, client, wake, response, result, e,
              ollama_error, outcome, all_throttled, p_attempts, o_attempts,
              nstores>>
unitVars == <<u_last, u_stored, u_dropped>>
traceVars == <<acquired, delays, last_error, probe>>
addVars == <<h_pc, h_loaded, h_args>>
logVars == <<history_file, h_last, h_truncated, addVars>>
confVars == <<limit, max_retries>>
vars == <<sharedVars, callVars, unitVars, confVars, traceVars, logVars>>

(* ----------------------------- strings --------------------------------- *)
IsSpace(ch) == ch = " "

RECURSIVE LStrip(_)
LStrip(s) == IF s # <<>> /\ IsSpace(Head(s)) THEN LStrip(Tail(s)) ELSE s

RECURSIVE RStrip(_)
RStrip(s) ==
  IF s # <<>> /\ IsSpace(s[Len(s)]) THEN RStrip(SubSeq(s, 1, Len(s) - 1)) ELSE s

(* A strip() that forgets the trailing whitespace. *)
StripLeftOnly(s) == LStrip(s)

(* str.strip() *)
Strip(s) == RStrip(LStrip(s))

(* Python truthiness of an Optional[str]. *)
Truthy(x) == x # None /\ x # <<>>

(* --------------------------- rate limiter ------------------------------ *)
(* openai_module.py:61-62, the timestamps still inside the window.         *)
PurgeOld(times, current_time) ==
  SelectSeq(times, LAMBDA req_time : current_time - req_time < RATE_LIMIT_WINDOW)

(* A limit test that lets one request too many through. *)
LimitReachedLate(times) == Len(times) > limit

(* openai_module.py:65 *)
LimitReached(times) == Len(times) >= limit

(* min(request_times), openai_module.py:66; the list is not empty. *)
Oldest(times) ==
  CHOOSE t \in {times[i] : i \in 1..Len(times)} :
    \A i \in 1..Len(times) : t <= times[i]

(* A wait that ends one second early. *)
WaitTimeShort(times, current_time) ==
  RATE_LIMIT_WINDOW - (current_time - Oldest(times)) - 1

(* openai_module.py:67 *)
WaitTime(times, current_time) ==
  RATE_LIMIT_WINDOW - (current_time - Oldest(times))

(* ------------------------------- cache --------------------------------- *)
(* _get_cache_key: md5 of the exact text; distinct texts of the model get  *)
(* distinct digests, and a digest is not the text.                         *)
CacheKey(t) == <<"md5", t>>

(* Position of key k in the dict, 0 when absent. *)
IndexOf(c, k) ==
  IF \E i \in 1..Len(c) : c[i].key = k
  THEN CHOOSE i \in 1..Len(c) : c[i].key = k
  ELSE 0

(* A removal that takes the entries before the i-th along with it. *)
RemoveUpTo(c, i) == SubSeq(c, i + 1, Len(c))

(* del cache[key] for the i-th key (openai_module.py:90 and 100). *)
RemoveAt(c, i) == SubSeq(c, 1, i - 1) \o SubSeq(c, i + 1, Len(c))

(* An expiry test that still serves an entry exactly CACHE_TTL old. *)
FreshInclusive(item, time) == time - item.timestamp <= CACHE_TTL

(* openai_module.py:86 *)
Fresh(item, time) == time - item.timestamp < CACHE_TTL

(* What _get_from_cache returns (openai_module.py:83-91). *)
GetValue(c, t, time) ==
  LET i == IndexOf(c, CacheKey(t)) IN
  IF i # 0 /\ Fresh(c[i], time) THEN c[i].result ELSE None

(* A lookup that renews the timestamp of the entry it serves. *)
GetCacheTouch(c, t, time) ==
  LET i == IndexOf(c, CacheKey(t)) IN
  IF i = 0 THEN c
  ELSE IF Fresh(c[i], time) THEN [c EXCEPT ![i].timestamp = time]
  ELSE RemoveAt(c, i)

(* The cache _get_from_cache leaves (openai_module.py:89-90). *)
GetCache(c, t, time) ==
  LET i == IndexOf(c, CacheKey(t)) IN
  IF i # 0 /\ ~Fresh(c[i], time) THEN RemoveAt(c, i) ELSE c

(* openai_module.py:98 *)
CacheFull(c) == Len(c) >= CACHE_MAX_SIZE

(* An eviction that takes the newest entry instead of the oldest. *)
NewestIndex(c) ==
  CHOOSE i \in 1..Len(c) :
    \A j \in 1..Len(c) : c[i].timestamp >= c[j].timestamp

(* min(cache.keys(), key=timestamp): the first key, in dict order, among   *)
(* those with the smallest timestamp (openai_module.py:99).                *)
OldestIndex(c) ==
  CHOOSE i \in 1..Len(c) :
    /\ \A j \in 1..Len(c) : c[i].timestamp <= c[j].timestamp
    /\ \A j \in 1..(i - 1) : c[j].timestamp > c[i].timestamp

(* openai_module.py:98-100 *)
EvictIfFull(c) == IF CacheFull(c) THEN RemoveAt(c, OldestIndex(c)) ELSE c

(* cache[key] = {...} (openai_module.py:102-105): an existing key keeps    *)
(* its place in the dict, a new one goes last.                             *)
PutEntry(c, t, r, time) ==
  LET k == CacheKey(t)
      i == IndexOf(c, k)
      item == [key |-> k, result |-> r, timestamp |-> time]
  IN IF i # 0 THEN [c EXCEPT ![i] = item] ELSE Append(c, item)

(* The whole of _save_to_cache. *)
SaveToCache(c, t, r, time) == PutEntry(EvictIfFull(c), t, r, time)

(* ------------------------------ agent ---------------------------------- *)
NoOutcome == [kind |-> "none", summary |-> None, openai |-> NoExc, ollama |-> NoExc]

(* agent.py:183-184 and 194: the primary returned. *)
AgentPrimaryReturned(ret) ==
  [kind |-> "ok", summary |-> ret, openai |-> NoExc, ollama |-> NoExc]

(* A fallback whose result never reaches `summary`. *)
AgentOllamaReturnedLost(ret) ==
  [kind |-> "ok", summary |-> None, openai |-> NoExc, ollama |-> NoExc]

(* agent.py:188-189 and 194: the secondary returned. *)
AgentOllamaReturned(ret) ==
  [kind |-> "ok", summary |-> ret, openai |-> NoExc, ollama |-> NoExc]

(* An aggregate error that reports the secondary's exception alone. *)
AgentOllamaRaisedOnlyLast(exc, ollama_exc) ==
  [kind |-> "error", summary |-> None, openai |-> NoExc, ollama |-> ollama_exc]

(* agent.py:190-192: the secondary raised too. *)
AgentOllamaRaised(exc, ollama_exc) ==
  [kind |-> "error", summary |-> None, openai |-> exc, ollama |-> ollama_exc]

(* agent.py:185-187: where control goes when the primary raised. *)
AgentPrimaryRaised == "o_probe"

(* ------------------------------ state ---------------------------------- *)
NoLast == [op |-> "none", text |-> NoText, result |-> None]

NoRecord ==
  [id |-> 0, url |-> NoText, summary |-> None, success |-> FALSE, timestamp |-> 0]
NoCall == [op |-> "none", request |-> NoRecord, ret |-> NoRecord, deleted |-> FALSE]
NoArgs ==
  [call |-> [url |-> NoText, summary |-> <<>>, success |-> FALSE], time |-> 0]

(* The state at import, the limit apart. *)
InitRest ==
  /\ now = 0
  /\ request_times = <<>>
  /\ rate_limit_lock = 0
  /\ cache = <<>>
  /\ cache_lock = 0
  /\ pc = [c \in Callers |-> "idle"]
  /\ op = [c \in Callers |-> "none"]
  /\ cached_result = [c \in Callers |-> None]
  /\ text = [c \in Callers |-> NoText]
  /\ attempt = [c \in Callers |-> 0]
  /\ client = [c \in Callers |-> FALSE]
  /\ wake = [c \in Callers |-> 0]
  /\ response = [c \in Callers |-> None]
  /\ result = [c \in Callers |-> None]
  /\ e = [c \in Callers |-> NoExc]
  /\ ollama_error = [c \in Callers |-> NoExc]
  /\ outcome = [c \in Callers |-> NoOutcome]
  /\ all_throttled = [c \in Callers |-> TRUE]
  /\ p_attempts = [c \in Callers |-> 0]
  /\ o_attempts = [c \in Callers |-> 0]
  /\ nstores = 0
  /\ u_last = NoLast
  /\ u_stored = <<>>
  /\ u_dropped = FALSE
  /\ acquired = [c \in Callers |-> FALSE]
  /\ delays = [c \in Callers |-> <<>>]
  /\ last_error = [c \in Callers |-> NoExc]
  /\ probe = [c \in Callers |-> "none"]
  /\ history_file = <<>>
  /\ h_last = NoCall
  /\ h_truncated = FALSE
  /\ h_pc = [c \in Callers |-> "idle"]
  /\ h_loaded = [c \in Callers |-> <<>>]
  /\ h_args = [c \in Callers |-> NoArgs]

Init ==
  /\ limit = MAX_REQUESTS_PER_MINUTE
  /\ max_retries = MAX_RETRIES
  /\ InitRest

(* The clock moves on. *)
Tick ==
  /\ UNCHANGED <<confVars, traceVars, logVars>>
  /\ now < MaxTime
  /\ now' = now + 1
  /\ UNCHANGED <<request_times, rate_limit_lock, cache, cache_lock>>
  /\ UNCHANGED <<callVars, unitVars>>

(* A web request reaches agent.py:182 with its clean_text. *)
StartCall(c, t) ==
  /\ UNCHANGED <<confVars, traceVars, logVars>>
  /\ pc[c] = "idle"
  /\ pc' = [pc EXCEPT ![c] = "get"]
  /\ op' = [op EXCEPT ![c] = "summarize_url"]
  /\ text' = [text EXCEPT ![c] = t]
  /\ UNCHANGED <<sharedVars, unitVars>>
  /\ UNCHANGED <<cached_result, attempt, client, wake, response, result, e,
                 ollama_error, outcome, all_throttled, p_attempts, o_attempts,
                 nstores>>

(* A cache whose functions do not take the lock. *)
CacheLockIgnored == TRUE

(* `with cache_lock` (openai_module.py:82 and 95) lets a caller in. *)
CacheLockFree == cache_lock = 0

(* openai_module.py:112, `if cached_result:` *)
CacheHit(value) == Truthy(value)

(* openai_module.py:111-113: _get_from_cache under cache_lock, then the    *)
(* return of a hit.                                                        *)
GetFromCache(c) ==
  /\ UNCHANGED <<confVars, traceVars, logVars>>
  /\ pc[c] = "get"
  /\ CacheLockFree
  /\ cache' = GetCache(cache, text[c], now)
  /\ cached_result' = [cached_result EXCEPT ![c] = GetValue(cache, text[c], now)]
  /\ IF op[c] = "_get_from_cache"
     THEN /\ pc' = [pc EXCEPT ![c] = "done"]
          /\ UNCHANGED outcome
     ELSE /\ IF CacheHit(cached_result'[c])
             THEN /\ outcome' = [outcome EXCEPT ![c] =
                                   AgentPrimaryReturned(cached_result'[c])]
                  /\ pc' = [pc EXCEPT ![c] = "done"]
             ELSE /\ pc' = [pc EXCEPT ![c] = "rate"]
                  /\ UNCHANGED outcome
  /\ UNCHANGED <<now, request_times, rate_limit_lock, cache_lock, unitVars>>
  /\ UNCHANGED <<op, text, attempt, client, wake, response, result, e, ollama_error,
                 all_throttled, p_attempts, o_attempts, nstores>>

(* `for attempt in range(MAX_RETRIES)` moving on to the next attempt       *)
(* (openai_module.py:120); past the last one the function ends and         *)
(* returns None.                                                           *)
LoopNext(c) ==
  /\ attempt' = [attempt EXCEPT ![c] = attempt[c] + 1]
  /\ IF attempt[c] + 1 < max_retries
     THEN /\ pc' = [pc EXCEPT ![c] = "attempt"]
          /\ UNCHANGED outcome
     ELSE /\ pc' = [pc EXCEPT ![c] = "done"]
          /\ outcome' = [outcome EXCEPT ![c] = AgentPrimaryReturned(None)]

(* Where _check_rate_limit returns to: line 118 on the first call of a     *)
(* summarize_text, the loop on the calls of lines 148 and 160.             *)
AfterRateLimit(c) ==
  IF op[c] = "_check_rate_limit"
  THEN /\ pc' = [pc EXCEPT ![c] = "done"]
       /\ UNCHANGED <<attempt, outcome>>
  ELSE IF client[c]
  THEN LoopNext(c)
  ELSE /\ pc' = [pc EXCEPT ![c] = "client"]
       /\ UNCHANGED <<attempt, outcome>>

(* A rate limiter that returns from an admission without releasing its     *)
(* lock.                                                                   *)
CheckRateLimitKeepsLock(c) ==
  /\ UNCHANGED <<confVars, delays, last_error, probe, logVars>>
  /\ pc[c] = "rate"
  /\ rate_limit_lock = 0
  /\ LET times == PurgeOld(request_times, now) IN
     IF LimitReached(times) /\ times = <<>>
     THEN \* min() of an empty list raises ValueError
          /\ request_times' = times
          /\ e' = [e EXCEPT ![c] = ValueErr]
          /\ pc' = [pc EXCEPT ![c] = IF op[c] = "_check_rate_limit"
                                       THEN "done" ELSE AgentPrimaryRaised]
          /\ UNCHANGED <<rate_limit_lock, wake, attempt, outcome, acquired>>
     ELSE IF LimitReached(times) /\ WaitTime(times, now) > 0
     THEN /\ request_times' = times
          /\ rate_limit_lock' = c
          /\ wake' = [wake EXCEPT ![c] = now + WaitTime(times, now)]
          /\ pc' = [pc EXCEPT ![c] = "rate_sleep"]
          /\ UNCHANGED <<e, attempt, outcome, acquired>>
     ELSE /\ request_times' = Append(times, now)
          /\ acquired' = [acquired EXCEPT ![c] = TRUE]
          /\ rate_limit_lock' = c
          /\ AfterRateLimit(c)
          /\ UNCHANGED <<wake, e>>
  /\ UNCHANGED <<now, cache, cache_lock, unitVars>>
  /\ UNCHANGED <<op, text, cached_result, client, response, result, ollama_error,
                 all_throttled, p_attempts, o_attempts, nstores>>

(* _check_rate_limit up to its sleep or its return (openai_module.py:      *)
(* 56-74). The lock is held across the sleep.                              *)
CheckRateLimit(c) ==
  /\ UNCHANGED <<confVars, delays, last_error, probe, logVars>>
  /\ pc[c] = "rate"
  /\ rate_limit_lock = 0
  /\ LET times == PurgeOld(request_times, now) IN
     IF LimitReached(times) /\ times = <<>>
     THEN \* min() of an empty list raises ValueError
          /\ request_times' = times
          /\ e' = [e EXCEPT ![c] = ValueErr]
          /\ pc' = [pc EXCEPT ![c] = IF op[c] = "_check_rate_limit"
                                       THEN "done" ELSE AgentPrimaryRaised]
          /\ UNCHANGED <<rate_limit_lock, wake, attempt, outcome, acquired>>
     ELSE IF LimitReached(times) /\ WaitTime(times, now) > 0
     THEN /\ request_times' = times
          /\ rate_limit_lock' = c
          /\ wake' = [wake EXCEPT ![c] = now + WaitTime(times, now)]
          /\ pc' = [pc EXCEPT ![c] = "rate_sleep"]
          /\ UNCHANGED <<e, attempt, outcome, acquired>>
     ELSE /\ request_times' = Append(times, now)
          /\ acquired' = [acquired EXCEPT ![c] = TRUE]
          /\ AfterRateLimit(c)
          /\ UNCHANGED <<rate_limit_lock, wake, e>>
  /\ UNCHANGED <<now, cache, cache_lock, unitVars>>
  /\ UNCHANGED <<op, text, cached_result, client, response, result, ollama_error,
                 all_throttled, p_attempts, o_attempts, nstores>>

(* A rate limiter that does not give the lock back after its sleep. *)
RateLimitWakeKeepsLock(c) ==
  /\ UNCHANGED <<confVars, delays, last_error, probe, logVars>>
  /\ pc[c] = "rate_sleep"
  /\ now >= wake[c]
  /\ wake' = [wake EXCEPT ![c] = 0]
  /\ request_times' = Append(request_times, now)
  /\ rate_limit_lock' = rate_limit_lock
  /\ acquired' = [acquired EXCEPT ![c] = TRUE]
  /\ AfterRateLimit(c)
  /\ UNCHANGED <<now, cache, cache_lock, unitVars>>
  /\ UNCHANGED <<op, text, cached_result, client, response, result, e, ollama_error,
                 all_throttled, p_attempts, o_attempts, nstores>>

(* The sleep of openai_module.py:70 is over: lines 71-74 and the release   *)
(* of the lock.                                                            *)
RateLimitWake(c) ==
  /\ UNCHANGED <<confVars, delays, last_error, probe, logVars>>
  /\ pc[c] = "rate_sleep"
  /\ now >= wake[c]
  /\ wake' = [wake EXCEPT ![c] = 0]
  /\ request_times' = Append(request_times, now)
  /\ rate_limit_lock' = 0
  /\ acquired' = [acquired EXCEPT ![c] = TRUE]
  /\ AfterRateLimit(c)
  /\ UNCHANGED <<now, cache, cache_lock, unitVars>>
  /\ UNCHANGED <<op, text, cached_result, client, response, result, e, ollama_error,
                 all_throttled, p_attempts, o_attempts, nstores>>

(* _get_openai_client (openai_module.py:43-52, 118): ValueError without    *)
(* an API key in the environment, then the loop's first iteration.         *)
GetClient(c) ==
  /\ UNCHANGED <<confVars, traceVars, logVars>>
  /\ pc[c] = "client"
  /\ \/ /\ client' = [client EXCEPT ![c] = TRUE]
        /\ IF max_retries > 0
           THEN /\ pc' = [pc EXCEPT ![c] = "attempt"]
                /\ UNCHANGED outcome
           ELSE /\ pc' = [pc EXCEPT ![c] = "done"]
                /\ outcome' = [outcome EXCEPT ![c] = AgentPrimaryReturned(None)]
        /\ UNCHANGED e
     \/ /\ e' = [e EXCEPT ![c] = ValueErr]
        /\ pc' = [pc EXCEPT ![c] = AgentPrimaryRaised]
        /\ UNCHANGED <<client, outcome>>
  /\ UNCHANGED <<sharedVars, unitVars>>
  /\ UNCHANGED <<op, text, cached_result, attempt, wake, response, result, ollama_error,
                 all_throttled, p_attempts, o_attempts, nstores>>

(* What a network attempt of the primary can raise. *)
PrimaryErrors == {"RateLimitError", "APIError429", "APIError", "Exception"}

(* openai_module.py:141 and 153: the errors handled as throttling. *)
IsThrottle(err) == err \in {"RateLimitError", "APIError429"}

(* openai_module.py:144 and 156 *)
RetryAfterThrottle(n) == n < max_retries - 1

(* openai_module.py:165 and 171 *)
LastAttempt(n) == n = max_retries - 1

(* A backoff that does not grow with the attempt. *)
BackoffDelayFlat(n) == BASE_DELAY

(* openai_module.py:145 and 157 *)
BackoffDelay(n) == BASE_DELAY * (2 ^ n)

(* openai_module.py:167 and 173 *)
FixedDelay == BASE_DELAY

(* The exception summarize_text raises after the last attempt              *)
(* (openai_module.py:150, 162, 166, 172).                                  *)
PrimaryRaises(err) ==
  IF IsThrottle(err) THEN RateLimited
  ELSE IF err = "APIError" THEN ApiErr
  ELSE Unexpected

(* One iteration of the primary's loop up to its sleep, its raise or its   *)
(* call of _save_to_cache (openai_module.py:121-173).                      *)
PrimaryAttempt(c) ==
  /\ UNCHANGED <<confVars, probe, logVars>>
  /\ pc[c] = "attempt"
  /\ p_attempts' = [p_attempts EXCEPT ![c] = p_attempts[c] + 1]
  /\ acquired' = [acquired EXCEPT ![c] = FALSE]
  /\ \/ \E raw \in RawOutputs :
          /\ response' = [response EXCEPT ![c] = raw]
          /\ result' = [result EXCEPT ![c] = Strip(raw)]
          /\ pc' = [pc EXCEPT ![c] = "save"]
          /\ all_throttled' = [all_throttled EXCEPT ![c] = FALSE]
          /\ last_error' = [last_error EXCEPT ![c] = NoExc]
          /\ UNCHANGED <<wake, e, delays>>
     \/ \E err \in PrimaryErrors :
          /\ all_throttled' =
               [all_throttled EXCEPT ![c] = all_throttled[c] /\ IsThrottle(err)]
          /\ last_error' = [last_error EXCEPT ![c] = err]
          /\ IF IsThrottle(err)
             THEN IF RetryAfterThrottle(attempt[c])
                  THEN /\ wake' = [wake EXCEPT ![c] = now + BackoffDelay(attempt[c])]
                       /\ delays' = [delays EXCEPT ![c] =
                                       Append(delays[c], BackoffDelay(attempt[c]))]
                       /\ pc' = [pc EXCEPT ![c] = "sleep_rate"]
                       /\ UNCHANGED e
                  ELSE /\ e' = [e EXCEPT ![c] = PrimaryRaises(err)]
                       /\ pc' = [pc EXCEPT ![c] = AgentPrimaryRaised]
                       /\ UNCHANGED <<wake, delays>>
             ELSE IF LastAttempt(attempt[c])
                  THEN /\ e' = [e EXCEPT ![c] = PrimaryRaises(err)]
                       /\ pc' = [pc EXCEPT ![c] = AgentPrimaryRaised]
                       /\ UNCHANGED <<wake, delays>>
                  ELSE /\ wake' = [wake EXCEPT ![c] = now + FixedDelay]
                       /\ delays' = [delays EXCEPT ![c] =
                                       Append(delays[c], FixedDelay)]
                       /\ pc' = [pc EXCEPT ![c] = "sleep"]
                       /\ UNCHANGED e
          /\ UNCHANGED <<response, result>>
  /\ UNCHANGED <<sharedVars, unitVars>>
  /\ UNCHANGED <<op, text, cached_result, attempt, client, ollama_error, outcome, o_attempts, nstores>>

(* The sleep of openai_module.py:147 or 159 is over; _check_rate_limit     *)
(* comes next.                                                             *)
ThrottleSleepOver(c) ==
  /\ UNCHANGED <<confVars, acquired, delays, probe, logVars>>
  /\ last_error' = [last_error EXCEPT ![c] = NoExc]
  /\ pc[c] = "sleep_rate"
  /\ now >= wake[c]
  /\ wake' = [wake EXCEPT ![c] = 0]
  /\ pc' = [pc EXCEPT ![c] = "rate"]
  /\ UNCHANGED <<sharedVars, unitVars>>
  /\ UNCHANGED <<op, text, cached_result, attempt, client, response, result, e, ollama_error,
                 outcome, all_throttled, p_attempts, o_attempts, nstores>>

(* The sleep of openai_module.py:167 or 173 is over; the next iteration    *)
(* comes next.                                                             *)
SleepOver(c) ==
  /\ UNCHANGED <<confVars, acquired, delays, probe, logVars>>
  /\ last_error' = [last_error EXCEPT ![c] = NoExc]
  /\ pc[c] = "sleep"
  /\ now >= wake[c]
  /\ wake' = [wake EXCEPT ![c] = 0]
  /\ LoopNext(c)
  /\ UNCHANGED <<sharedVars, unitVars>>
  /\ UNCHANGED <<op, text, cached_result, client, response, result, e, ollama_error,
                 all_throttled, p_attempts, o_attempts, nstores>>

(* _save_to_cache, first half: the lock and the eviction                   *)
(* (openai_module.py:95-100).                                              *)
SaveEvict(c) ==
  /\ UNCHANGED <<confVars, traceVars, logVars>>
  /\ pc[c] = "save"
  /\ CacheLockFree
  /\ cache_lock' = c
  /\ cache' = EvictIfFull(cache)
  /\ pc' = [pc EXCEPT ![c] = "save_put"]
  /\ UNCHANGED <<now, request_times, rate_limit_lock, unitVars>>
  /\ UNCHANGED <<op, text, cached_result, attempt, client, wake, response, result, e, ollama_error,
                 outcome, all_throttled, p_attempts, o_attempts, nstores>>

(* _save_to_cache, second half, and the return of the result               *)
(* (openai_module.py:102-106, 139).                                        *)
SavePut(c) ==
  /\ UNCHANGED <<confVars, traceVars, logVars>>
  /\ pc[c] = "save_put"
  /\ cache' = PutEntry(cache, text[c], result[c], now)
  /\ cache_lock' = 0
  /\ pc' = [pc EXCEPT ![c] = "done"]
  /\ IF op[c] = "_save_to_cache"
     THEN UNCHANGED outcome
     ELSE outcome' = [outcome EXCEPT ![c] = AgentPrimaryReturned(result[c])]
  /\ UNCHANGED <<now, request_times, rate_limit_lock, unitVars>>
  /\ UNCHANGED <<op, text, cached_result, attempt, client, wake, response, result, e, ollama_error,
                 all_throttled, p_attempts, o_attempts, nstores>>

(* --------------------------- secondary client -------------------------- *)
(* What a generate attempt of the secondary can raise: a                   *)
(* requests.exceptions.RequestException, or anything else (a reply         *)
(* without the "response" field, ollama_module.py:102).                    *)
OllamaErrors == {"RequestException", "Exception"}

(* ollama_module.py:107 *)
OllamaRetry(n) == n < max_retries - 1

(* A secondary that gives up one attempt early. *)
OllamaLastAttemptEarly(n) == n = max_retries - 2

(* ollama_module.py:117 *)
OllamaLastAttempt(n) == n = max_retries - 1

(* ollama_module.py:108 and 120 *)
OllamaDelay(n) == OLLAMA_BASE_DELAY * (2 ^ n)

(* ollama_module.py:112 and 118 *)
OllamaRaises(err) ==
  IF err = "RequestException" THEN RequestFailed ELSE OllamaUnexpected

(* What GET /api/tags can come to: status 200, another status, or an     *)
(* exception (no connection, timeout).                                     *)
ProbeOutcomes == {"200", "other status", "exception"}

(* A probe that takes any HTTP reply for a live backend. *)
OllamaAvailableAnyReply(p) == p # "exception"

(* _check_ollama_available (ollama_module.py:45-58) *)
OllamaAvailable(p) == p = "200"

(* _check_ollama_available and the fail-fast of summarize_text             *)
(* (ollama_module.py:45-58, 74-75); agent.py:190-192 on the raise.         *)
OllamaProbe(c) ==
  /\ UNCHANGED <<confVars, acquired, delays, last_error, logVars>>
  /\ pc[c] = "o_probe"
  /\ \E p \in ProbeOutcomes :
       /\ probe' = [probe EXCEPT ![c] = p]
       /\ IF ~OllamaAvailable(p)
          THEN /\ ollama_error' = [ollama_error EXCEPT ![c] = Unavailable]
               /\ outcome' = [outcome EXCEPT ![c] = AgentOllamaRaised(e[c], Unavailable)]
               /\ pc' = [pc EXCEPT ![c] = "done"]
               /\ UNCHANGED attempt
          ELSE /\ attempt' = [attempt EXCEPT ![c] = 0]
               /\ UNCHANGED ollama_error
               /\ IF max_retries > 0
                  THEN /\ pc' = [pc EXCEPT ![c] = "o_attempt"]
                       /\ UNCHANGED outcome
                  ELSE /\ pc' = [pc EXCEPT ![c] = "done"]
                       /\ outcome' = [outcome EXCEPT ![c] = AgentOllamaReturned(None)]
  /\ UNCHANGED <<sharedVars, unitVars>>
  /\ UNCHANGED <<op, text, cached_result, client, wake, response, result, e,
                 all_throttled, p_attempts, o_attempts, nstores>>

(* One iteration of the secondary's loop up to its sleep, its raise or     *)
(* its return (ollama_module.py:82-121); agent.py:188-194 on the way out.  *)
OllamaAttempt(c) ==
  /\ UNCHANGED <<confVars, acquired, delays, probe, logVars>>
  /\ pc[c] = "o_attempt"
  /\ o_attempts' = [o_attempts EXCEPT ![c] = o_attempts[c] + 1]
  /\ \/ \E raw \in OllamaOutputs :
          /\ response' = [response EXCEPT ![c] = raw]
          /\ result' = [result EXCEPT ![c] = Strip(raw)]
          /\ outcome' = [outcome EXCEPT ![c] = AgentOllamaReturned(Strip(raw))]
          /\ pc' = [pc EXCEPT ![c] = "done"]
          /\ last_error' = [last_error EXCEPT ![c] = NoExc]
          /\ UNCHANGED <<wake, ollama_error>>
     \/ \E err \in OllamaErrors :
          /\ last_error' = [last_error EXCEPT ![c] = err]
          /\ IF (err = "RequestException" /\ OllamaRetry(attempt[c]))
                \/ (err = "Exception" /\ ~OllamaLastAttempt(attempt[c]))
             THEN /\ wake' = [wake EXCEPT ![c] = now + OllamaDelay(attempt[c])]
                  /\ pc' = [pc EXCEPT ![c] = "o_sleep"]
                  /\ UNCHANGED <<ollama_error, outcome>>
             ELSE /\ ollama_error' = [ollama_error EXCEPT ![c] = OllamaRaises(err)]
                  /\ outcome' =
                       [outcome EXCEPT ![c] = AgentOllamaRaised(e[c], OllamaRaises(err))]
                  /\ pc' = [pc EXCEPT ![c] = "done"]
                  /\ UNCHANGED wake
          /\ UNCHANGED <<response, result>>
  /\ UNCHANGED <<sharedVars, unitVars>>
  /\ UNCHANGED <<op, text, cached_result, attempt, client, e, all_throttled, p_attempts, nstores>>

(* A secondary that goes through the primary's rate window before each    *)
(* retry.                                                                  *)
OllamaSleepOverAcquires(c) ==
  /\ pc[c] = "o_sleep"
  /\ now >= wake[c]
  /\ wake' = [wake EXCEPT ![c] = 0]
  /\ attempt' = [attempt EXCEPT ![c] = attempt[c] + 1]
  /\ request_times' = Append(PurgeOld(request_times, now), now)
  /\ pc' = [pc EXCEPT ![c] = IF attempt[c] + 1 < max_retries THEN "o_attempt" ELSE "done"]
  /\ outcome' = IF attempt[c] + 1 < max_retries
                THEN outcome
                ELSE [outcome EXCEPT ![c] = AgentOllamaReturned(None)]
  /\ UNCHANGED <<now, rate_limit_lock, cache, cache_lock, unitVars>>
  /\ UNCHANGED <<confVars, traceVars, logVars>>
  /\ UNCHANGED <<op, text, cached_result, client, response, result, e, ollama_error,
                 all_throttled, p_attempts, o_attempts, nstores>>

(* The sleep of ollama_module.py:110 or 121 is over; the next iteration    *)
(* comes next (ollama_module.py:81).                                       *)
OllamaSleepOver(c) ==
  /\ UNCHANGED <<confVars, acquired, delays, probe, logVars>>
  /\ last_error' = [last_error EXCEPT ![c] = NoExc]
  /\ pc[c] = "o_sleep"
  /\ now >= wake[c]
  /\ wake' = [wake EXCEPT ![c] = 0]
  /\ attempt' = [attempt EXCEPT ![c] = attempt[c] + 1]
  /\ IF attempt[c] + 1 < max_retries
     THEN /\ pc' = [pc EXCEPT ![c] = "o_attempt"]
          /\ UNCHANGED outcome
     ELSE /\ pc' = [pc EXCEPT ![c] = "done"]
          /\ outcome' = [outcome EXCEPT ![c] = AgentOllamaReturned(None)]
  /\ UNCHANGED <<sharedVars, unitVars>>
  /\ UNCHANGED <<op, text, cached_result, client, response, result, e, ollama_error,
                 all_throttled, p_attempts, o_attempts, nstores>>

(* --------------------------- specification ----------------------------- *)
Next ==
  \/ Tick
  \/ \E c \in Callers, t \in Texts : StartCall(c, t)
  \/ \E c \in Callers : GetFromCache(c)
  \/ \E c \in Callers : CheckRateLimit(c)
  \/ \E c \in Callers : RateLimitWake(c)
  \/ \E c \in Callers : GetClient(c)
  \/ \E c \in Callers : PrimaryAttempt(c)
  \/ \E c \in Callers : ThrottleSleepOver(c)
  \/ \E c \in Callers : SleepOver(c)
  \/ \E c \in Callers : SaveEvict(c)
  \/ \E c \in Callers : SavePut(c)
  \/ \E c \in Callers : OllamaProbe(c)
  \/ \E c \in Callers : OllamaAttempt(c)
  \/ \E c \in Callers : OllamaSleepOver(c)

Spec == Init /\ [][Next]_vars

(* ------------------- the module's functions, called alone -------------- *)
(* A caller enters _check_rate_limit() by itself. *)
StartAcquire(c) ==
  /\ UNCHANGED <<confVars, traceVars, logVars>>
  /\ pc[c] \in {"idle", "done"}
  /\ pc' = [pc EXCEPT ![c] = "rate"]
  /\ op' = [op EXCEPT ![c] = "_check_rate_limit"]
  /\ UNCHANGED <<sharedVars, unitVars>>
  /\ UNCHANGED <<text, cached_result, attempt, client, wake, response, result, e,
                 ollama_error, outcome, all_throttled, p_attempts, o_attempts,
                 nstores>>

(* A caller enters _get_from_cache(t) by itself. *)
StartLookup(c, t) ==
  /\ UNCHANGED <<confVars, traceVars, logVars>>
  /\ pc[c] \in {"idle", "done"}
  /\ pc' = [pc EXCEPT ![c] = "get"]
  /\ op' = [op EXCEPT ![c] = "_get_from_cache"]
  /\ text' = [text EXCEPT ![c] = t]
  /\ cached_result' = [cached_result EXCEPT ![c] = None]
  /\ result' = [result EXCEPT ![c] = None]
  /\ UNCHANGED <<sharedVars, unitVars>>
  /\ UNCHANGED <<attempt, client, wake, response, e, ollama_error, outcome,
                 all_throttled, p_attempts, o_attempts, nstores>>

(* A caller enters _save_to_cache(t, r) by itself. *)
StartStore(c, t, r) ==
  /\ UNCHANGED <<confVars, traceVars, logVars>>
  /\ pc[c] \in {"idle", "done"}
  /\ nstores < MaxStores
  /\ nstores' = nstores + 1
  /\ pc' = [pc EXCEPT ![c] = "save"]
  /\ op' = [op EXCEPT ![c] = "_save_to_cache"]
  /\ text' = [text EXCEPT ![c] = t]
  /\ cached_result' = [cached_result EXCEPT ![c] = None]
  /\ result' = [result EXCEPT ![c] = r]
  /\ UNCHANGED <<sharedVars, unitVars>>
  /\ UNCHANGED <<attempt, client, wake, response, e, ollama_error, outcome,
                 all_throttled, p_attempts, o_attempts>>

(* Concurrent callers of the rate limiter alone. *)
RateNext ==
  \/ Tick
  \/ \E c \in Callers : StartAcquire(c)
  \/ \E c \in Callers : CheckRateLimit(c)
  \/ \E c \in Callers : RateLimitWake(c)

RateSpec == Init /\ [][RateNext]_vars

(* The values MAX_REQUESTS_PER_MINUTE may be given in the environment      *)
(* (openai_module.py:30), the misconfigured ones among them.               *)
ConfiguredLimits == {-1, 0, MAX_REQUESTS_PER_MINUTE}

InitAnyLimit ==
  /\ limit \in ConfiguredLimits
  /\ max_retries = MAX_RETRIES
  /\ InitRest

(* Concurrent callers of the rate limiter alone, under any limit. *)
RateConfSpec == InitAnyLimit /\ [][RateNext]_vars

(* The values MAX_RETRIES may be given in the environment                  *)
(* (openai_module.py:26, ollama_module.py:27), zero among them.            *)
ConfiguredRetries == {0, MAX_RETRIES - 1}

InitAnyRetries ==
  /\ limit = MAX_REQUESTS_PER_MINUTE
  /\ max_retries \in ConfiguredRetries
  /\ InitRest

(* Concurrent summarization requests, under any attempt cap. *)
RetriesConfSpec == InitAnyRetries /\ [][Next]_vars

(* Concurrent callers of the cache alone. *)
CacheConcNext ==
  \/ Tick
  \/ \E c \in Callers, t \in UnitTexts : StartLookup(c, t)
  \/ \E c \in Callers, t \in UnitTexts, r \in Summaries : StartStore(c, t, r)
  \/ \E c \in Callers : GetFromCache(c)
  \/ \E c \in Callers : SaveEvict(c)
  \/ \E c \in Callers : SavePut(c)

CacheConcSpec == Init /\ [][CacheConcNext]_vars

(* One caller of the cache alone, a call at a time: _get_from_cache(t)     *)
(* from entry to return (openai_module.py:80-91).                          *)
Lookup(t) ==
  /\ UNCHANGED <<confVars, traceVars, logVars>>
  /\ CacheLockFree
  /\ cache' = GetCache(cache, t, now)
  /\ u_last' = [op |-> "lookup", text |-> t, result |-> GetValue(cache, t, now)]
  /\ u_dropped' = (u_dropped \/ GetCache(cache, t, now) # cache)
  /\ UNCHANGED <<now, request_times, rate_limit_lock, cache_lock, u_stored>>
  /\ UNCHANGED callVars

(* _save_to_cache(t, r) from entry to return (openai_module.py:93-106). *)
Store(t, r) ==
  /\ UNCHANGED <<confVars, traceVars, logVars>>
  /\ CacheLockFree
  /\ Len(u_stored) < MaxStores
  /\ cache' = SaveToCache(cache, t, r, now)
  /\ u_last' = [op |-> "store", text |-> t, result |-> r]
  /\ u_stored' = Append(u_stored, [text |-> t, at |-> now])
  /\ UNCHANGED <<now, request_times, rate_limit_lock, cache_lock, u_dropped>>
  /\ UNCHANGED callVars

CacheNext ==
  \/ Tick
  \/ \E t \in UnitTexts : Lookup(t)
  \/ \E t \in UnitTexts, r \in Summaries : Store(t, r)

CacheSpec == Init /\ [][CacheNext]_vars

(* ------------------------- fair scheduling ----------------------------- *)
(* The caller is inside a time.sleep() that has not run out. *)
Sleeping(c) ==
  pc[c] \in {"rate_sleep", "sleep_rate", "sleep", "o_sleep"} /\ wake[c] > now

(* The clock as the sleepers see it: time never stops while a sleep has    *)
(* not run out.                                                            *)
TickOn ==
  /\ UNCHANGED <<confVars, traceVars, logVars>>
  /\ now < MaxTime \/ \E c \in Callers : Sleeping(c)
  /\ now' = now + 1
  /\ UNCHANGED <<request_times, rate_limit_lock, cache, cache_lock>>
  /\ UNCHANGED <<callVars, unitVars>>

(* The next step of the thread serving caller c's request. *)
CallerStep(c) ==
  \/ GetFromCache(c)
  \/ CheckRateLimit(c)
  \/ RateLimitWake(c)
  \/ GetClient(c)
  \/ PrimaryAttempt(c)
  \/ ThrottleSleepOver(c)
  \/ SleepOver(c)
  \/ SaveEvict(c)
  \/ SavePut(c)
  \/ OllamaProbe(c)
  \/ OllamaAttempt(c)
  \/ OllamaSleepOver(c)

(* One web request is served while another thread keeps calling the rate  *)
(* limiter, so that the request finds the window full and the lock taken.  *)
Requester == 1
Competitor == 2

FairNext ==
  \/ TickOn
  \/ \E t \in Texts : StartCall(Requester, t)
  \/ (now < MaxTime /\ StartAcquire(Competitor))
  \/ \E c \in Callers : CallerStep(c)

(* Every thread that can run is run in the end, every network call         *)
(* returns or raises, and time goes on.                                    *)
FairSpec ==
  /\ Init
  /\ [][FairNext]_vars
  /\ WF_vars(TickOn)
  /\ \A c \in Callers : WF_vars(CallerStep(c))

(* ----------------------------- history.py ------------------------------ *)
(* HistoryManager, one call at a time. A record keeps its id, url,         *)
(* summary, success and timestamp; error, char_count and sentence_count    *)
(* are left out (no claim reads them). The file is written and read back   *)
(* without I/O errors.                                                     *)
Urls == {"u", "v"}

(* The two ways app.py calls add_request (app.py:42 and 58). *)
AddCalls ==
  {[url |-> u, summary |-> <<"s">>, success |-> TRUE] : u \in Urls}
    \cup {[url |-> u, summary |-> <<>>, success |-> FALSE] : u \in Urls}

(* history.py:57-66 *)
NewRecord(history, call, time) ==
  [id |-> Len(history) + 1,
   url |-> call.url,
   summary |-> IF call.success THEN call.summary ELSE None,
   success |-> call.success,
   timestamp |-> time]

(* A new record put at the end of the list. *)
InsertLast(history, record) == Append(history, record)

(* history.insert(0, record), history.py:69 *)
InsertFirst(history, record) == <<record>> \o history

(* history.py:72-73 *)
Truncate(history) ==
  IF Len(history) > MAX_HISTORY_SIZE
  THEN SubSeq(history, 1, MAX_HISTORY_SIZE)
  ELSE history

(* history.py:76-77 and 113-114 *)
Renumber(history) ==
  [i \in 1..Len(history) |-> [history[i] EXCEPT !.id = i]]

(* What add_request saves (history.py:54-79). *)
AddedHistory(history, call, time) ==
  Renumber(Truncate(InsertFirst(history, NewRecord(history, call, time))))

(* What add_request returns (history.py:82): `record` is the loop          *)
(* variable of line 76 by then, bound to the last record of the list.      *)
AddReturn(history) == history[Len(history)]

(* add_request from entry to return (history.py:52-82). *)
AddRequest(call) ==
  /\ history_file' = AddedHistory(history_file, call, now)
  /\ h_last' = [op |-> "add_request",
                request |-> NewRecord(<<>>, call, now),
                ret |-> AddReturn(history_file'),
                deleted |-> FALSE]
  /\ h_truncated' = (h_truncated \/ Len(history_file) + 1 > MAX_HISTORY_SIZE)
  /\ UNCHANGED <<sharedVars, callVars, unitVars, confVars, traceVars, addVars>>

(* history.py:109 *)
WithoutId(history, request_id) ==
  SelectSeq(history, LAMBDA record : record.id # request_id)

(* delete_request from entry to return (history.py:104-120). *)
DeleteRequest(request_id) ==
  /\ LET history == WithoutId(history_file, request_id) IN
       IF Len(history) < Len(history_file)
       THEN /\ history_file' = Renumber(history)
            /\ h_last' = [op |-> "delete_request", request |-> NoRecord,
                          ret |-> NoRecord, deleted |-> TRUE]
       ELSE /\ UNCHANGED history_file
            /\ h_last' = [op |-> "delete_request", request |-> NoRecord,
                          ret |-> NoRecord, deleted |-> FALSE]
  /\ UNCHANGED <<sharedVars, callVars, unitVars, confVars, traceVars, h_truncated,
                 addVars>>

(* clear_history (history.py:99-102) *)
ClearHistory ==
  /\ history_file' = <<>>
  /\ h_last' = [op |-> "clear_history", request |-> NoRecord,
                ret |-> NoRecord, deleted |-> FALSE]
  /\ UNCHANGED <<sharedVars, callVars, unitVars, confVars, traceVars, h_truncated,
                 addVars>>

(* The ids a caller may ask to delete. *)
RequestIds == 0..(MAX_HISTORY_SIZE + 1)

HistoryNext ==
  \/ Tick
  \/ \E call \in AddCalls : AddRequest(call)
  \/ \E request_id \in RequestIds : DeleteRequest(request_id)
  \/ ClearHistory

HistorySpec == Init /\ [][HistoryNext]_vars

(* ------------------- history.py, concurrent requests ------------------- *)
(* Two threads of the web server in add_request at once (app.py:42, 58):   *)
(* neither the file nor the HistoryManager has a lock. The steps of a      *)
(* call that other threads can see are the read of the file and the write. *)

(* history.py:54-66: the file is read and the record's time taken. *)
AddLoad(c, call) ==
  /\ h_pc[c] = "idle"
  /\ h_loaded' = [h_loaded EXCEPT ![c] = history_file]
  /\ h_args' = [h_args EXCEPT ![c] = [call |-> call, time |-> now]]
  /\ h_pc' = [h_pc EXCEPT ![c] = "loaded"]
  /\ UNCHANGED <<history_file, h_last, h_truncated>>
  /\ UNCHANGED <<sharedVars, callVars, unitVars, confVars, traceVars>>

(* history.py:69-82: the list the thread loaded, with its record, is       *)
(* written over the file.                                                  *)
AddSave(c) ==
  /\ h_pc[c] = "loaded"
  /\ history_file' = AddedHistory(h_loaded[c], h_args[c].call, h_args[c].time)
  /\ h_last' = [op |-> "add_request",
                request |-> NewRecord(<<>>, h_args[c].call, h_args[c].time),
                ret |-> AddReturn(history_file'),
                deleted |-> FALSE]
  /\ h_truncated' = (h_truncated \/ Len(h_loaded[c]) + 1 > MAX_HISTORY_SIZE)
  /\ h_pc' = [h_pc EXCEPT ![c] = "done"]
  /\ UNCHANGED <<h_loaded, h_args>>
  /\ UNCHANGED <<sharedVars, callVars, unitVars, confVars, traceVars>>

(* Requests served one at a time, then one request per thread at once. *)
HistoryConcNext ==
  \/ Tick
  \/ /\ \A c \in Callers : h_pc[c] = "idle"
     /\ \E call \in AddCalls : AddRequest(call)
  \/ \E c \in Callers, call \in AddCalls : AddLoad(c, call)
  \/ \E c \in Callers : AddSave(c)

HistoryConcSpec == Init /\ [][HistoryConcNext]_vars

(* ======================================================================= *)
(*                               Claims                                    *)
(* ======================================================================= *)

(* s is raw without its leading and trailing whitespace, said without      *)
(* Strip: s is a slice of raw, only spaces lie outside the slice, and s    *)
(* neither starts nor ends with a space.                                   *)
IsStripOf(s, raw) ==
  /\ s # <<>> => (~IsSpace(s[1]) /\ ~IsSpace(s[Len(s)]))
  /\ \E i \in 1..(Len(raw) + 1) : \E j \in (i - 1)..Len(raw) :
       /\ s = SubSeq(raw, i, j)
       /\ \A k \in (1..(i - 1)) \cup ((j + 1)..Len(raw)) : IsSpace(raw[k])

Finished(c) == op[c] = "summarize_url" /\ pc[c] = "done"

(* C1. Fallback: whenever a summarization step has ended with the primary  *)
(* having raised (every attempt it made failed) and the secondary having   *)
(* been available and its generate call having succeeded, the step         *)
(* returned the secondary's stripped reply; the aggregate error was not    *)
(* raised.                                                                 *)
C1_Fallback ==
  \A c \in Callers :
    (Finished(c) /\ e[c] # NoExc /\ o_attempts[c] > 0 /\ ollama_error[c] = NoExc)
      => /\ outcome[c].kind = "ok"
         /\ response[c] \in OllamaOutputs
         /\ IsStripOf(outcome[c].summary, response[c])

C1_Witness ==
  \E c \in Callers :
    /\ Finished(c)
    /\ e[c] = RateLimited
    /\ p_attempts[c] = MAX_RETRIES
    /\ o_attempts[c] > 1
    /\ ollama_error[c] = NoExc
    /\ outcome[c].kind = "ok"

(* C2. The summarization step fails only if both backends failed: a step   *)
(* that ended in an error had the primary raise and then the secondary     *)
(* raise, the secondary either on its failed liveness probe (no generate   *)
(* attempt) or after all MAX_RETRIES generate attempts, and the error      *)
(* carries these two exceptions; a step in which either backend returned   *)
(* ended with a summary.                                                   *)
C2_FailsOnlyIfBothFail ==
  \A c \in Callers :
    Finished(c) =>
      /\ outcome[c].kind \in {"ok", "error"}
      /\ outcome[c].kind = "error" =>
           /\ e[c] # NoExc
           /\ ollama_error[c] \in {Unavailable, RequestFailed, OllamaUnexpected}
           /\ ollama_error[c] = Unavailable => o_attempts[c] = 0
           /\ ollama_error[c] # Unavailable => o_attempts[c] = MAX_RETRIES
           /\ outcome[c].openai = e[c]
           /\ outcome[c].ollama = ollama_error[c]
      /\ (e[c] = NoExc \/ ollama_error[c] = NoExc) =>
           /\ outcome[c].kind = "ok"
           /\ outcome[c].summary # None

C2_Witness ==
  \E c \in Callers :
    /\ Finished(c)
    /\ outcome[c].kind = "error"
    /\ e[c] # NoExc
    /\ ollama_error[c] = RequestFailed
    /\ o_attempts[c] = MAX_RETRIES

(* C3. When the primary raised a throttling error on each of its           *)
(* MAX_RETRIES attempts and the secondary's liveness probe failed, the     *)
(* step ends in the aggregate error, which carries the primary's           *)
(* rate-limit exhaustion and the secondary's unavailability.               *)
C3_AggregateCarriesBoth ==
  \A c \in Callers :
    (Finished(c) /\ all_throttled[c] /\ p_attempts[c] = MAX_RETRIES
       /\ ollama_error[c] = Unavailable)
      => outcome[c] = [kind |-> "error", summary |-> None,
                       openai |-> RateLimited, ollama |-> Unavailable]

C3_Witness ==
  \E c \in Callers :
    /\ Finished(c)
    /\ all_throttled[c]
    /\ p_attempts[c] = MAX_RETRIES
    /\ ollama_error[c] = Unavailable
    /\ outcome[c].kind = "error"

(* The cache holds an unexpired entry for text t. *)
HasFreshEntry(t) ==
  \E i \in 1..Len(cache) :
    cache[i].key = CacheKey(t) /\ now - cache[i].timestamp < CACHE_TTL

FreshEntry(t) ==
  cache[CHOOSE i \in 1..Len(cache) :
          cache[i].key = CacheKey(t) /\ now - cache[i].timestamp < CACHE_TTL]

(* C4. Cache hit short-circuit: a summarize call that looks its text up    *)
(* while the cache holds an unexpired entry for it (put there by a         *)
(* successful primary call) returns the entry's summary at once: no        *)
(* timestamp enters the rate window and no backend is called.              *)
C4_CacheHitShortCircuits ==
  [][\A c \in Callers :
       (GetFromCache(c) /\ op[c] = "summarize_url" /\ HasFreshEntry(text[c]))
         => /\ pc'[c] = "done"
            /\ outcome'[c].kind = "ok"
            /\ outcome'[c].summary = FreshEntry(text[c]).result
            /\ request_times' = request_times]_vars

(* C5. When the lookup found nothing for the text and the primary          *)
(* succeeds on its first attempt, the call returns the primary's reply     *)
(* stripped of leading and trailing whitespace, and on return the cache    *)
(* holds an entry for the text whose value is the returned summary.        *)
C5_FirstAttemptSuccessIsCached ==
  [][\A c \in Callers :
       (SavePut(c) /\ op[c] = "summarize_url" /\ cached_result[c] = None
          /\ p_attempts[c] = 1)
         => /\ pc'[c] = "done"
            /\ outcome'[c].kind = "ok"
            /\ response[c] \in RawOutputs
            /\ IsStripOf(outcome'[c].summary, response[c])
            /\ \E i \in 1..Len(cache') :
                 /\ cache'[i].key = CacheKey(text[c])
                 /\ cache'[i].result = outcome'[c].summary
                 /\ cache'[i].timestamp = now]_vars

C5_Witness ==
  \E c \in Callers :
    /\ Finished(c)
    /\ cached_result[c] = None
    /\ p_attempts[c] = 1
    /\ response[c] = <<" ", "t", " ">>
    /\ outcome[c].summary = <<"t">>
    /\ \E i \in 1..Len(cache) :
         cache[i].key = CacheKey(text[c]) /\ cache[i].result = <<"t">>

(* ------------------------- cache, called alone ------------------------- *)
WasStored(t) == \E i \in 1..Len(u_stored) : u_stored[i].text = t

(* The time of the latest store of text t. *)
LastStoreAt(t) ==
  u_stored[CHOOSE i \in 1..Len(u_stored) :
             /\ u_stored[i].text = t
             /\ \A j \in (i + 1)..Len(u_stored) : u_stored[j].text # t].at

(* C6. Cache round trip: a lookup(T) that directly follows store(T, S),    *)
(* before CACHE_TTL has elapsed since that store (in particular            *)
(* immediately), returns S; a lookup(T) made once CACHE_TTL has elapsed    *)
(* since the latest store of T returns absent.                             *)
C6_RoundTrip ==
  [][\A t \in UnitTexts :
       Lookup(t) =>
         /\ (u_last.op = "store" /\ u_last.text = t
               /\ now - LastStoreAt(t) < CACHE_TTL)
              => (u_last'.result = u_last.result /\ u_last'.result \in Summaries)
         /\ (WasStored(t) /\ now - LastStoreAt(t) >= CACHE_TTL)
              => u_last'.result = None]_vars

(* A lookup has found an entry expired, and a later lookup right after a   *)
(* store has returned the stored summary.                                  *)
C6_Witness ==
  /\ u_dropped
  /\ u_last.op = "lookup"
  /\ u_last.result \in Summaries
  /\ now - LastStoreAt(u_last.text) < CACHE_TTL

(* C7. Cache size under concurrency: whatever the interleaving of the      *)
(* lookups and stores of concurrent callers, the cache never holds more    *)
(* than CACHE_MAX_SIZE entries.                                            *)
C7_CacheSizeBounded == Len(cache) <= CACHE_MAX_SIZE

(* More stores than the capacity were made, both callers have just         *)
(* returned from stores of different texts, and the cache is full.         *)
C7_Witness ==
  /\ Len(cache) = CACHE_MAX_SIZE
  /\ nstores > CACHE_MAX_SIZE
  /\ \A c \in Callers : pc[c] = "done" /\ op[c] = "_save_to_cache"
  /\ \E c, d \in Callers : text[c] # text[d]

(* The stores made so far were CACHE_MAX_SIZE + 1 stores of distinct       *)
(* texts into the initially empty cache, and the last of them was the      *)
(* last cache call.                                                        *)
StoredOneTooMany ==
  /\ Len(u_stored) = CACHE_MAX_SIZE + 1
  /\ \A i, j \in 1..Len(u_stored) : i # j => u_stored[i].text # u_stored[j].text
  /\ u_last.op = "store"

InCache(t) == \E i \in 1..Len(cache) : cache[i].key = CacheKey(t)

(* Exactly CACHE_MAX_SIZE entries are left, the stored text that is gone   *)
(* has the smallest creation time of the stored texts, and the entries     *)
(* left carry the times they were created at.                              *)
OldestWasEvicted ==
  /\ Len(cache) = CACHE_MAX_SIZE
  /\ \A i \in 1..Len(u_stored) :
       IF InCache(u_stored[i].text)
       THEN cache[IndexOf(cache, CacheKey(u_stored[i].text))].timestamp
              = u_stored[i].at
       ELSE \A j \in 1..Len(u_stored) : u_stored[i].at <= u_stored[j].at

(* C8 as stated. Cache eviction: storing CACHE_MAX_SIZE + 1 distinct       *)
(* texts into an empty cache leaves exactly CACHE_MAX_SIZE entries and     *)
(* the one gone is the one with the smallest creation timestamp,           *)
(* whichever entries were looked up in between.                            *)
C8_EvictsOldest_AnyLookups == StoredOneTooMany => OldestWasEvicted

(* C8 as amended: the same, provided none of the lookups in between found  *)
(* its entry expired (a lookup of an expired entry removes it).            *)
C8_EvictsOldest == (StoredOneTooMany /\ ~u_dropped) => OldestWasEvicted

C8_Witness ==
  /\ StoredOneTooMany
  /\ ~u_dropped
  /\ OldestWasEvicted
  /\ u_stored[1].at < u_stored[2].at
  /\ now >= u_stored[1].at + CACHE_TTL

(* ---------------------- rate limiter, called alone --------------------- *)
(* The admitted timestamps inside the window that trails `now`. *)
InWindow ==
  {i \in 1..Len(request_times) : now - request_times[i] < RATE_LIMIT_WINDOW}

(* C9. Rate-limit safety: at every moment at most                          *)
(* MAX_REQUESTS_PER_MINUTE of the admitted calls lie inside the trailing   *)
(* window (the t with now - t < RATE_LIMIT_WINDOW, as the code reads the   *)
(* window). Purging drops only timestamps outside that window, so          *)
(* request_times holds every admission inside it.                          *)
C9_AtMostLimitInWindow == Cardinality(InWindow) <= MAX_REQUESTS_PER_MINUTE

(* The window is full and a caller is held back. *)
C9_Witness ==
  /\ Cardinality(InWindow) = MAX_REQUESTS_PER_MINUTE
  /\ \E c \in Callers : pc[c] = "rate_sleep"
  /\ \E c \in Callers : pc[c] = "rate"

(* The admitted timestamps inside the window, in order. *)
Retained ==
  SelectSeq(request_times, LAMBDA t : now - t < RATE_LIMIT_WINDOW)

(* The oldest timestamp of request_times, which is not empty. *)
OldestRetained ==
  CHOOSE t \in {request_times[i] : i \in 1..Len(request_times)} :
    \A i \in 1..Len(request_times) : t <= request_times[i]

(* C10. A call that finds MAX_REQUESTS_PER_MINUTE admitted calls inside    *)
(* the window blocks: it is not admitted in that step; and a blocked call  *)
(* is admitted only once RATE_LIMIT_WINDOW seconds have passed since the   *)
(* oldest retained admitted call.                                          *)
C10_BlocksUntilOldestAgesOut ==
  [][\A c \in Callers :
       /\ (CheckRateLimit(c) /\ Cardinality(InWindow) >= MAX_REQUESTS_PER_MINUTE)
            => /\ pc'[c] = "rate_sleep"
               /\ request_times' = Retained
       /\ RateLimitWake(c)
            => /\ request_times' = Append(request_times, now)
               /\ now - OldestRetained >= RATE_LIMIT_WINDOW]_vars

(* A blocked call has been admitted: the list holds the limit's worth of   *)
(* earlier admissions and the late one.                                    *)
C10_Witness ==
  /\ Len(request_times) = MAX_REQUESTS_PER_MINUTE + 1
  /\ request_times[Len(request_times)] - request_times[1] >= RATE_LIMIT_WINDOW
  /\ rate_limit_lock = 0

(* ------------------------- primary client, retries --------------------- *)
(* The caller is inside a summarize_url call and every network attempt     *)
(* its primary client has made so far raised a throttling error.           *)
OnlyThrottled(c) ==
  op[c] = "summarize_url" /\ p_attempts[c] > 0 /\ all_throttled[c]

(* The caller's primary client is still inside its retry loop. *)
InPrimaryLoop(c) ==
  pc[c] \in {"attempt", "sleep_rate", "sleep", "rate", "rate_sleep", "save", "save_put"}

(* C11. Throttling retry: while every attempt of the primary raises a      *)
(* throttling error, the backoff delay slept after failed attempt n        *)
(* (n = 0, 1, ...) is BASE_DELAY * 2^n, one delay after each attempt but   *)
(* the MAX_RETRIES-th; the MAX_RETRIES-th throttled attempt is the last:   *)
(* no delay and no attempt follows it and the primary raises the           *)
(* rate-limit exhaustion.                                                  *)
C11_ThrottlingRetry ==
  \A c \in Callers :
    OnlyThrottled(c) =>
      /\ p_attempts[c] <= MAX_RETRIES
      /\ \A n \in 1..Len(delays[c]) : delays[c][n] = BASE_DELAY * (2 ^ (n - 1))
      /\ p_attempts[c] < MAX_RETRIES =>
           /\ Len(delays[c]) = p_attempts[c]
           /\ e[c] = NoExc
           /\ InPrimaryLoop(c)
      /\ p_attempts[c] = MAX_RETRIES =>
           /\ Len(delays[c]) = MAX_RETRIES - 1
           /\ e[c] = RateLimited
           /\ ~InPrimaryLoop(c)

C11_Witness ==
  \E c \in Callers :
    /\ OnlyThrottled(c)
    /\ p_attempts[c] = MAX_RETRIES
    /\ Len(delays[c]) = MAX_RETRIES - 1
    /\ delays[c][MAX_RETRIES - 1] = BASE_DELAY * (2 ^ (MAX_RETRIES - 2))
    /\ e[c] = RateLimited

(* C12. The primary calls _check_rate_limit before each network attempt,   *)
(* retries included: whenever a network attempt is made, the rate limiter  *)
(* has admitted the call since the previous attempt, whatever error that   *)
(* attempt raised.                                                         *)
C12_AcquireBeforeEachAttempt ==
  [][\A c \in Callers : PrimaryAttempt(c) => acquired[c]]_vars

(* C13. A non-throttling API error on attempt n is handled like            *)
(* throttling: with n < MAX_RETRIES - 1 the primary sleeps                 *)
(* BASE_DELAY * 2^n and goes on to attempt n + 1; on the last attempt it   *)
(* raises the API error exhaustion.                                        *)
C13_ApiErrorSameBackoff ==
  [][\A c \in Callers :
       (PrimaryAttempt(c) /\ last_error'[c] = "APIError") =>
         IF attempt[c] < MAX_RETRIES - 1
         THEN /\ pc'[c] \in {"sleep", "sleep_rate"}
              /\ wake'[c] = now + BASE_DELAY * (2 ^ attempt[c])
              /\ e'[c] = NoExc
         ELSE /\ pc'[c] = AgentPrimaryRaised
              /\ e'[c] = ApiErr
              /\ wake'[c] = wake[c]]_vars

(* C14. An error of a network attempt that is neither throttling nor an    *)
(* API error ends the primary at once: it raises, no backoff is slept and  *)
(* no further attempt is made.                                             *)
C14_NonRetryableFailsAtOnce ==
  [][\A c \in Callers :
       (PrimaryAttempt(c) /\ last_error'[c] = "Exception") =>
         /\ pc'[c] = AgentPrimaryRaised
         /\ e'[c] = Unexpected
         /\ delays'[c] = delays[c]
         /\ wake'[c] = wake[c]]_vars

(* --------------------------- secondary client -------------------------- *)
(* C15. Secondary fail-fast: when the liveness probe fails (a status       *)
(* other than 200, or an exception), the secondary raises its              *)
(* unavailability error at once: it has made no generate attempt, sleeps   *)
(* no backoff, and the summarization step has ended with that error.       *)
C15_ProbeFailureFailsFast ==
  \A c \in Callers :
    probe[c] \in {"other status", "exception"} =>
      /\ pc[c] = "done"
      /\ o_attempts[c] = 0
      /\ wake[c] = 0
      /\ ollama_error[c] = Unavailable
      /\ outcome[c].kind = "error"
      /\ outcome[c].ollama = Unavailable

C15_Witness ==
  \E c \in Callers :
    /\ probe[c] = "other status"
    /\ pc[c] = "done"
    /\ e[c] = ApiErr
    /\ ollama_error[c] = Unavailable

(* A step of the caller's secondary client. *)
OllamaStep(c) == OllamaProbe(c) \/ OllamaAttempt(c) \/ OllamaSleepOver(c)

(* C16. The rate limiter does not apply to the secondary: no step of the   *)
(* secondary client, whatever its outcome and however many retries it      *)
(* makes, changes the rate window or takes the rate-limit lock, and none   *)
(* leads into _check_rate_limit.                                           *)
C16_SecondaryNotRateLimited ==
  [][\A c \in Callers :
       (pc[c] \in {"o_probe", "o_attempt", "o_sleep"} /\ OllamaStep(c)) =>
         /\ request_times' = request_times
         /\ rate_limit_lock' = rate_limit_lock
         /\ acquired' = acquired
         /\ pc'[c] \in {"o_attempt", "o_sleep", "done"}]_vars

(* A secondary call has made all its attempts, with the backoff waits in   *)
(* between, while the window held the primary's admissions only.           *)
C16_Witness ==
  \E c \in Callers :
    /\ pc[c] = "done"
    /\ o_attempts[c] = MAX_RETRIES
    /\ e[c] = ValueErr
    /\ ollama_error[c] = RequestFailed
    /\ Len(request_times) = 1

C18_RunsToCompletion ==
  \A c \in Callers :
    /\ [](p_attempts[c] <= MAX_RETRIES /\ o_attempts[c] <= MAX_RETRIES)
    /\ (op[c] = "summarize_url" /\ pc[c] = "rate")
         ~> (pc[c] = "done" /\ outcome[c].kind \in {"ok", "error"})

(* A call has ended after waiting for the rate limiter, after all the      *)
(* attempts of the primary and all those of the secondary.                 *)
C18_Witness ==
  \E c \in Callers :
    /\ Finished(c)
    /\ p_attempts[c] = MAX_RETRIES
    /\ o_attempts[c] = MAX_RETRIES
    /\ outcome[c].kind = "error"
    /\ Len(request_times) > MAX_REQUESTS_PER_MINUTE
    /\ now > MaxTime

(* ------------------------------ history -------------------------------- *)
(* C19. History log invariant: after any sequence of add_request,          *)
(* delete_request and clear_history calls from the empty history, the      *)
(* stored history has at most MAX_HISTORY_SIZE records, is ordered newest  *)
(* first, and its ids are 1..n in list order.                              *)
C19_HistoryInvariant ==
  /\ Len(history_file) <= MAX_HISTORY_SIZE
  /\ \A i \in 1..Len(history_file) : history_file[i].id = i
  /\ \A i, j \in 1..Len(history_file) :
       i < j => history_file[i].timestamp >= history_file[j].timestamp

(* The list was cut by an add, a record was deleted after that, and the    *)
(* records left were made at different times.                              *)
C19_Witness ==
  /\ h_truncated
  /\ h_last.op = "delete_request" /\ h_last.deleted
  /\ Len(history_file) = MAX_HISTORY_SIZE - 1
  /\ \A i, j \in 1..Len(history_file) :
       i < j => history_file[i].timestamp > history_file[j].timestamp

(* ------------------------------ lookup frame --------------------------- *)
(* The entries of the cache other than the one for text t, in order. *)
OtherEntries(c, t) == SelectSeq(c, LAMBDA item : item.key # CacheKey(t))

(* The cache holds an entry for t that has expired. *)
HasExpiredEntry(t) ==
  \E i \in 1..Len(cache) :
    cache[i].key = CacheKey(t) /\ now - cache[i].timestamp >= CACHE_TTL

(* C20. Cache lookup frame: a lookup of a text with an unexpired entry     *)
(* returns the entry's value and leaves the cache as it was; a lookup of   *)
(* a text with an expired entry removes that entry and no other and        *)
(* returns absent; a lookup of a text without an entry changes nothing     *)
(* and returns absent.                                                     *)
C20_LookupFrame ==
  [][\A t \in UnitTexts :
       Lookup(t) =>
         /\ HasFreshEntry(t) =>
              /\ u_last'.result = FreshEntry(t).result
              /\ cache' = cache
         /\ HasExpiredEntry(t) =>
              /\ u_last'.result = None
              /\ cache' = OtherEntries(cache, t)
              /\ Len(cache') = Len(cache) - 1
         /\ ~InCache(t) =>
              /\ u_last'.result = None
              /\ cache' = cache]_vars

(* A lookup has removed an expired entry from a full cache, whose other    *)
(* entry, the older one in dict order, is still there.                     *)
C20_Witness ==
  /\ u_last.op = "lookup"
  /\ u_last.result = None
  /\ u_dropped
  /\ Len(u_stored) = CACHE_MAX_SIZE
  /\ Len(cache) = CACHE_MAX_SIZE - 1
  /\ ~InCache(u_last.text)
  /\ u_stored[CACHE_MAX_SIZE].text = u_last.text

(* ---------------------- secondary client, retries ---------------------- *)
(* C21. The available secondary retries transient failures only: after a   *)
(* request failure on attempt n it sleeps OLLAMA_BASE_DELAY * 2^n and      *)
(* tries again, up to MAX_RETRIES generate attempts, after which it        *)
(* raises; after a failure that is not a request failure (a reply without  *)
(* the response field) it raises at once, without a sleep and without      *)
(* another attempt.                                                        *)
C21_OnlyTransientRetried ==
  [][\A c \in Callers :
       OllamaAttempt(c) =>
         /\ o_attempts'[c] <= MAX_RETRIES
         /\ last_error'[c] = "RequestException" =>
              IF attempt[c] < MAX_RETRIES - 1
              THEN /\ pc'[c] = "o_sleep"
                   /\ wake'[c] = now + OLLAMA_BASE_DELAY * (2 ^ attempt[c])
              ELSE /\ pc'[c] = "done"
                   /\ ollama_error'[c] = RequestFailed
         /\ last_error'[c] = "Exception" =>
              /\ pc'[c] = "done"
              /\ ollama_error'[c] = OllamaUnexpected
              /\ wake'[c] = wake[c]]_vars

(* ------------------------- history, return value ----------------------- *)
(* C22. add_request returns the record it has just added: the head of the  *)
(* stored history, with id 1 and the url, summary and success it was       *)
(* called with, whatever the history held before.                          *)
C22_AddReturnsNewRecord ==
  h_last.op = "add_request" =>
    /\ h_last.ret = history_file[1]
    /\ h_last.ret.id = 1
    /\ h_last.ret.url = h_last.request.url
    /\ h_last.ret.summary = h_last.request.summary
    /\ h_last.ret.success = h_last.request.success

(* ---------------------------- cache writers ---------------------------- *)
(* The caller's primary client has had a network attempt succeed and the   *)
(* secondary has not been called.                                          *)
PrimarySucceeded(c) ==
  /\ op[c] = "summarize_url"
  /\ p_attempts[c] >= 1
  /\ e[c] = NoExc
  /\ probe[c] = "none" /\ o_attempts[c] = 0
  /\ response[c] \in RawOutputs
  /\ IsStripOf(result[c], response[c])

(* The entry at place i of the next cache is not an entry of this one. *)
NewOrReplaced(i) == \A j \in 1..Len(cache) : cache[j] # cache'[i]

(* C24. The cache gains or overwrites an entry only through a successful   *)
(* attempt of the primary: every entry that is new or replaced after a     *)
(* step is the one a caller whose primary attempt succeeded has just       *)
(* saved, for its text and with its stripped reply; so no cache hit, no    *)
(* failed attempt and no step of the secondary writes an entry, and every  *)
(* text in the cache has been served by the primary (a text served by the  *)
(* secondary alone is still a miss for the next call).                     *)
C24_OnlyPrimarySuccessWrites ==
  /\ [][\A i \in 1..Len(cache') :
         NewOrReplaced(i) =>
           \E c \in Callers :
             /\ SavePut(c)
             /\ PrimarySucceeded(c)
             /\ cache'[i] = [key |-> CacheKey(text[c]), result |-> result[c],
                             timestamp |-> now]]_vars
  /\ [](\A t \in Texts :
          InCache(t) =>
            \E c \in Callers :
              text[c] = t /\ pc[c] = "done" /\ PrimarySucceeded(c))

(* One request was served by the secondary; the other, for the same text,  *)
(* missed the cache, was served by the primary, and its entry is the one   *)
(* the cache holds.                                                        *)
C24_Witness ==
  \E c, d \in Callers :
    /\ c # d /\ text[c] = text[d]
    /\ Finished(c) /\ e[c] # NoExc /\ outcome[c].kind = "ok"
    /\ Finished(d) /\ PrimarySucceeded(d) /\ cached_result[d] = None
    /\ Len(cache) = 1 /\ cache[1].result = result[d]

(* --------------------------- deadlock freedom -------------------------- *)
(* The caller is inside _check_rate_limit: at its lock or in its sleep. *)
InAcquire(c) == pc[c] \in {"rate", "rate_sleep"}

(* While a call is unfinished, some thread can take its next step, or one  *)
(* is in a sleep that time will end.                                       *)
NoDeadlock ==
  (\E c \in Callers : pc[c] \notin {"idle", "done"}) =>
    \/ \E c \in Callers : ENABLED CallerStep(c)
    \/ \E c \in Callers : Sleeping(c)

(* No caller holds the rate-limit lock and the cache lock together. *)
NoBothLocks ==
  \A c \in Callers : ~(rate_limit_lock = c /\ cache_lock = c)

(* C23. Deadlock freedom, with two concurrent callers and a limit of at    *)
(* least one: whenever a call is unfinished some caller can step or is     *)
(* sleeping; no caller ever holds the rate-limit lock and the cache lock   *)
(* at the same time; and under fair scheduling every caller waiting in     *)
(* _check_rate_limit is admitted: it leaves with its own request time      *)
(* recorded last and the lock free.                                        *)
C23_DeadlockFree ==
  /\ [](limit >= 1 => NoDeadlock /\ NoBothLocks)
  /\ \A c \in Callers : InAcquire(c) ~> ~InAcquire(c)
  /\ [][\A c \in Callers :
         (InAcquire(c) /\ ~InAcquire(c)') =>
           /\ acquired'[c]
           /\ request_times'[Len(request_times')] = now
           /\ rate_limit_lock' = 0]_vars

(* One caller sleeps in _check_rate_limit with the lock while the other    *)
(* waits for that lock, the window being full.                             *)
C23_Witness ==
  \E c, d \in Callers :
    /\ pc[c] = "rate_sleep" /\ rate_limit_lock = c /\ Sleeping(c)
    /\ pc[d] = "rate"
    /\ Len(request_times) >= limit
    /\ limit >= 1

(* ----------------------------- attempt cap ----------------------------- *)
(* C25. Under every attempt cap, zero included, a call of the primary's    *)
(* summarize_text that has ended has returned a summary string or has      *)
(* raised: a summarization step never ends in success with no summary,     *)
(* and one whose primary returned nothing usable has tried the secondary.  *)
C25_SummaryOrError ==
  \A c \in Callers :
    (Finished(c) /\ outcome[c].kind = "ok") =>
      /\ outcome[c].summary # None
      /\ (p_attempts[c] = 0 /\ cached_result[c] = None) => probe[c] # "none"

(* ------------------------- concurrent history -------------------------- *)
(* The stored record is the one the thread's add_request call made. *)
IsRecordOf(record, c) ==
  /\ record.url = h_args[c].call.url
  /\ record.success = h_args[c].call.success
  /\ record.summary = NewRecord(<<>>, h_args[c].call, h_args[c].time).summary
  /\ record.timestamp = h_args[c].time

(* C26. No lost history updates: when two requests have called             *)
(* add_request concurrently and both calls have returned, the stored       *)
(* history holds the record of each, at two places, provided it held       *)
(* fewer than MAX_HISTORY_SIZE - 1 records before.                         *)
C26_NoLostUpdate ==
  ((\A c \in Callers : h_pc[c] = "done")
     /\ (\E c \in Callers : Len(h_loaded[c]) < MAX_HISTORY_SIZE - 1)) =>
    \E place \in [Callers -> 1..Len(history_file)] :
      /\ \A c, d \in Callers : c # d => place[c] # place[d]
      /\ \A c \in Callers : IsRecordOf(history_file[place[c]], c)

====
